---- MODULE Spec2Model ----
(***************************************************************************)
(* Trip detection of the tracker backend (backend/app/services/            *)
(* trip_service.py) over the trips and positions tables, run inside a      *)
(* database session (backend/app/core/database.py).                        *)
(*                                                                         *)
(* Units.  fix_time, durations and gaps are whole seconds.  Speeds are     *)
(* km/h.  Latitudes and longitudes are millidegrees; every position of the *)
(* model lies on one meridian, where the haversine distance is             *)
(* R * |delta latitude|.  distance is in hundredths of a kilometre (the    *)
(* code rounds to two decimals), avg_speed in hundredths of km/h.          *)
(***************************************************************************)
EXTENDS Integers, Sequences, FiniteSets, Bags, TLC

\* ------------------------------------------------------------------ bounds
\* Positions of the bounded streams have fix_time in 0..MaxT.
MaxT == 3
\* A bounded stream holds at most MaxPos positions.
MaxPos == 3

\* ------------------------------------------------------------- the program
VARIABLES
    settings,    \* app.core.config.settings (the trip detection values)
    positions,   \* table positions: a set of rows
    trips,       \* table trips, committed rows: a bag of rows without the id
    stop_rows,   \* table stops, committed rows: a bag of rows without the id
    sess,        \* per database session: the handler's position and locals
    lastCall,    \* the last completed detect_trips call and what it left
    active_connections,    \* ws_manager.active_connections: device_id -> set of websockets
    client_subscriptions,  \* ws_manager.client_subscriptions: websocket -> set of device ids
    broadcast    \* the broadcast_* call in progress: its position and locals

vars == <<settings, positions, trips, stop_rows, sess, lastCall,
          active_connections, client_subscriptions, broadcast>>

\* The state of the HTTP side, and the state of the websocket side.
db == <<settings, positions, trips, stop_rows, sess, lastCall>>
manager == <<active_connections, client_subscriptions, broadcast>>

Devices == {1, 2}
Sessions == {1, 2}

\* Position.speed is nullable; NoSpeed stands for None.
NoSpeed == -1
Speeds == {NoSpeed, 4, 5, 9}

\* The meridian of every position, and the latitude of a bounded stream at
\* second 0 (millidegrees).
Lon == 76000
BaseLat == 43000

DefaultSettings ==
    [TRIP_MIN_DURATION_SEC |-> 60, TRIP_MIN_SPEED_KMH |-> 5,
     TRIP_IDLE_THRESHOLD_SEC |-> 300, TRIP_MAX_GAP_SEC |-> 1800]

\* The defaults with TRIP_IDLE_THRESHOLD_SEC set to an hour.
HourIdleSettings == [DefaultSettings EXCEPT !.TRIP_IDLE_THRESHOLD_SEC = 3600]

\* Settings read from the environment, scaled to the bounded streams.
SmallSettings ==
    {[TRIP_MIN_DURATION_SEC |-> m, TRIP_MIN_SPEED_KMH |-> 5,
      TRIP_IDLE_THRESHOLD_SEC |-> 2, TRIP_MAX_GAP_SEC |-> 1] : m \in {0, 1}}

PositionRow(d, t, lat, sp) ==
    [id |-> d * 10000 + t, device_id |-> d, latitude |-> lat,
     longitude |-> Lon, speed |-> sp, fix_time |-> t]

\* The bounded streams of device d: at most MaxPos positions at distinct
\* seconds of 0..MaxT, any speed each, moving north one millidegree a second.
GridStreams(d) ==
    UNION {{{PositionRow(d, t, BaseLat + t, sp[t]) : t \in T} : sp \in [T -> Speeds]} :
           T \in {X \in SUBSET (0..MaxT) : Cardinality(X) <= MaxPos}}

\* The streams of the reference scenarios, for device 1.
ScenarioA ==
    {PositionRow(1, 0, 43000, 0), PositionRow(1, 60, 43001, 20),
     PositionRow(1, 300, 43005, 22), PositionRow(1, 600, 43010, 25),
     PositionRow(1, 900, 43010, 0)}
ScenarioB ==
    {PositionRow(1, 60, 43001, 2), PositionRow(1, 600, 43010, 2)}
ScenarioC ==
    {PositionRow(1, 60, 43001, 20), PositionRow(1, 300, 43005, 22),
     PositionRow(1, 2300, 43020, 25), PositionRow(1, 2600, 43025, 25)}

\* Scenario D: the device moves until 10:00 (second 600) and again from
\* 10:45 (second 3300).
ScenarioD ==
    {PositionRow(1, 0, 43000, 20), PositionRow(1, 600, 43010, 20),
     PositionRow(1, 3300, 43011, 20), PositionRow(1, 3900, 43021, 20)}
\* A drive of twelve minutes that later requests re-detect in parts.
ScenarioParts ==
    {PositionRow(1, 0, 43000, 20), PositionRow(1, 60, 43001, 20),
     PositionRow(1, 180, 43003, 20), PositionRow(1, 600, 43010, 20),
     PositionRow(1, 720, 43012, 20)}

\* A window end is second 0 or the fix_time of a position: any other window
\* selects the same positions and deletes the same trips as one of these.
WindowTimes == {0} \cup {p.fix_time : p \in positions}

\* ------------------------------------------------------------ pure helpers
Abs(x) == IF x < 0 THEN -x ELSE x

\* haversine_distance, in millimetres, for two points of one meridian:
\* 6371 km * pi / 180 = 111.194927 km a degree = 111195 mm a millidegree.
haversine_distance(lat1, lon1, lat2, lon2) ==
    111195 * Abs(lat2 - lat1)

RECURSIVE SumLegs(_, _)
SumLegs(ps, i) ==
    IF i >= Len(ps) THEN 0
    ELSE haversine_distance(ps[i].latitude, ps[i].longitude,
                            ps[i + 1].latitude, ps[i + 1].longitude)
         + SumLegs(ps, i + 1)

\* round(km, 2) of a length in millimetres, in hundredths of a kilometre.
Round2(mm) == (mm + 5000) \div 10000

\* TripService._calc_distance
calc_distance(ps) ==
    IF Len(ps) < 2 THEN 0 ELSE Round2(SumLegs(ps, 1))

\* pos.speed or 0
SpeedOrZero(sp) == IF sp = NoSpeed THEN 0 ELSE sp

\* Mutant: any positive speed counts as moving.
is_moving_AnySpeed(cfg, pos) == SpeedOrZero(pos.speed) > 0

\* Mutant: a speed equal to TRIP_MIN_SPEED_KMH is not moving.
is_moving_Strict(cfg, pos) == SpeedOrZero(pos.speed) > cfg.TRIP_MIN_SPEED_KMH

\* is_moving = (pos.speed or 0) >= settings.TRIP_MIN_SPEED_KMH
is_moving(cfg, pos) == SpeedOrZero(pos.speed) >= cfg.TRIP_MIN_SPEED_KMH

Max(a, b) == IF a >= b THEN a ELSE b

\* ORDER BY fix_time of a set of position rows.
RECURSIVE OrderByFixTime(_)
OrderByFixTime(S) ==
    IF S = {} THEN <<>>
    ELSE LET first == CHOOSE p \in S : \A q \in S : p.fix_time <= q.fix_time
         IN  <<first>> \o OrderByFixTime(S \ {first})

\* Mutant: the select forgets the lower end of the window.
SelectPositions_NoLowerBound(tbl, device_id, from_date, to_date) ==
    OrderByFixTime({p \in tbl : /\ p.device_id = device_id
                                /\ p.fix_time <= to_date})

\* Mutant: the select takes the positions of every device.
SelectPositions_AnyDevice(tbl, device_id, from_date, to_date) ==
    OrderByFixTime({p \in tbl : /\ p.fix_time >= from_date
                                /\ p.fix_time <= to_date})

\* select(Position) of device_id with from_date <= fix_time <= to_date,
\* ordered by fix_time.
SelectPositions(tbl, device_id, from_date, to_date) ==
    OrderByFixTime({p \in tbl : /\ p.device_id = device_id
                                /\ p.fix_time >= from_date
                                /\ p.fix_time <= to_date})

\* ------------------------------------------------- the segmentation loop
Last(seq) == seq[Len(seq)]

\* No open trip: current_trip = None is the empty sequence, an open trip a
\* sequence of one trip dict.
None == <<>>

\* The dict of a trip that ends at end_pos, with distance and duration
\* (the forced_trip / trip dicts of detect_trips).
ClosedTrip(current_trip, end_pos) ==
    [device_id |-> current_trip.device_id,
     start_position_id |-> current_trip.start_position_id,
     start_lat |-> current_trip.start_lat,
     start_lon |-> current_trip.start_lon,
     start_time |-> current_trip.start_time,
     positions |-> current_trip.positions,
     max_speed |-> current_trip.max_speed,
     end_position_id |-> end_pos.id,
     end_lat |-> end_pos.latitude,
     end_lon |-> end_pos.longitude,
     end_time |-> end_pos.fix_time,
     distance |-> calc_distance(current_trip.positions),
     duration |-> end_pos.fix_time - current_trip.start_time,
     avg_speed |-> 0,
     position_count |-> 0]

\* avg_speed and position_count of a trip that is kept.
WithStats(trip) ==
    [trip EXCEPT
        !.avg_speed = IF trip.duration > 0
                      THEN (trip.distance * 3600) \div trip.duration ELSE 0,
        !.position_count = Len(trip.positions)]

\* if trip["duration"] >= settings.TRIP_MIN_DURATION_SEC: trips.append(trip)
AppendIfLongEnough(cfg, trip_list, trip) ==
    IF trip.duration >= cfg.TRIP_MIN_DURATION_SEC
    THEN Append(trip_list, WithStats(trip))
    ELSE trip_list

\* Mutant: gap_sec keeps the value 0 of the first iteration.
GapSec_Zero(ps, i) == 0

\* gap_sec of iteration i (1-based) over the selected positions ps.
GapSec(ps, i) ==
    IF i > 1 THEN ps[i].fix_time - ps[i - 1].fix_time ELSE 0

\* Mutant: a gap never closes the open trip.
ForceCloseOnGap_Never(cfg, st, gap_sec) == st

\* Mutant: a gap equal to TRIP_MAX_GAP_SEC closes the open trip too.
ForceCloseOnGap_AtEqual(cfg, st, gap_sec) ==
    IF st.current_trip # None /\ gap_sec >= cfg.TRIP_MAX_GAP_SEC
    THEN [current_trip |-> None,
          trips |-> AppendIfLongEnough(cfg, st.trips,
                        ClosedTrip(st.current_trip[1],
                                   Last(st.current_trip[1].positions)))]
    ELSE st

\* The forced closure at the head of an iteration: the open trip ends at
\* its last accumulated position.
ForceCloseOnGap(cfg, st, gap_sec) ==
    IF st.current_trip # None /\ gap_sec > cfg.TRIP_MAX_GAP_SEC
    THEN [current_trip |-> None,
          trips |-> AppendIfLongEnough(cfg, st.trips,
                        ClosedTrip(st.current_trip[1],
                                   Last(st.current_trip[1].positions)))]
    ELSE st

\* "Start new trip"
StartTrip(device_id, pos) ==
    [device_id |-> device_id,
     start_position_id |-> pos.id,
     start_lat |-> pos.latitude,
     start_lon |-> pos.longitude,
     start_time |-> pos.fix_time,
     positions |-> <<pos>>,
     max_speed |-> SpeedOrZero(pos.speed)]

\* Mutant: max_speed stays the speed of the first position.
ContinueTrip_MaxNotUpdated(current_trip, pos) ==
    [current_trip EXCEPT !.positions = Append(@, pos)]

\* "Continue trip"
ContinueTrip(current_trip, pos) ==
    [current_trip EXCEPT
        !.positions = Append(@, pos),
        !.max_speed = IF pos.speed # NoSpeed /\ pos.speed # 0
                      THEN Max(@, pos.speed) ELSE @]

\* Mutant: the position that is not moving becomes the last point and the
\* end of the trip.
EndTrip_AtPos(cfg, st, pos) ==
    [current_trip |-> None,
     trips |-> AppendIfLongEnough(cfg, st.trips,
                   ClosedTrip([st.current_trip[1] EXCEPT !.positions = Append(@, pos)],
                              pos))]

\* Mutant: the trip that a slow position ends is recorded and stays open.
EndTrip_StaysOpen(cfg, st, pos) ==
    [current_trip |-> st.current_trip,
     trips |-> AppendIfLongEnough(cfg, st.trips,
                   ClosedTrip(st.current_trip[1],
                              Last(st.current_trip[1].positions)))]

\* "End trip": a position that is not moving ends the open trip at prev_pos,
\* the last accumulated position.
EndTrip(cfg, st, pos) ==
    [current_trip |-> None,
     trips |-> AppendIfLongEnough(cfg, st.trips,
                   ClosedTrip(st.current_trip[1],
                              Last(st.current_trip[1].positions)))]

\* One iteration of "for i, pos in enumerate(positions)" on the loop state
\* st = [current_trip, trips].
LoopBody(cfg, device_id, ps, i, st) ==
    LET pos == ps[i]
        st1 == ForceCloseOnGap(cfg, st, GapSec(ps, i))
    IN  IF is_moving(cfg, pos)
        THEN IF st1.current_trip = None
             THEN [st1 EXCEPT !.current_trip = <<StartTrip(device_id, pos)>>]
             ELSE [st1 EXCEPT !.current_trip =
                                  <<ContinueTrip(st1.current_trip[1], pos)>>]
        ELSE IF st1.current_trip # None
             THEN EndTrip(cfg, st1, pos)
             ELSE st1

\* Mutant: a trip still open when the stream ends is dropped.
FinishLastTrip_Dropped(cfg, st) == st.trips

\* Mutant: the last trip is kept whatever its duration.
FinishLastTrip_NoFloor(cfg, st) ==
    IF st.current_trip # None
    THEN Append(st.trips,
             WithStats(ClosedTrip(st.current_trip[1],
                                  Last(st.current_trip[1].positions))))
    ELSE st.trips

\* "Handle last trip if still moving at end"
FinishLastTrip(cfg, st) ==
    IF st.current_trip # None
    THEN AppendIfLongEnough(cfg, st.trips,
             ClosedTrip(st.current_trip[1],
                        Last(st.current_trip[1].positions)))
    ELSE st.trips

\* ------------------------------------------------------- the trips table
\* The columns of a Trip row made from a trip dict (the id is left out).
TripRow(trip_data) ==
    [device_id |-> trip_data.device_id,
     start_position_id |-> trip_data.start_position_id,
     start_lat |-> trip_data.start_lat,
     start_lon |-> trip_data.start_lon,
     start_time |-> trip_data.start_time,
     end_position_id |-> trip_data.end_position_id,
     end_lat |-> trip_data.end_lat,
     end_lon |-> trip_data.end_lon,
     end_time |-> trip_data.end_time,
     distance |-> trip_data.distance,
     duration |-> trip_data.duration,
     max_speed |-> trip_data.max_speed,
     avg_speed |-> trip_data.avg_speed,
     position_count |-> trip_data.position_count]

\* session.add(Trip(...)) for every trip of the list.
RECURSIVE AddedRows(_, _)
AddedRows(trip_list, i) ==
    IF i > Len(trip_list) THEN EmptyBag
    ELSE SetToBag({TripRow(trip_list[i])}) (+) AddedRows(trip_list, i + 1)

\* Mutant: the delete spares a trip that starts at from_date.
InDeleteWindow_StrictStart(row, device_id, from_date, to_date) ==
    /\ row.device_id = device_id
    /\ row.start_time > from_date
    /\ row.end_time <= to_date

\* Mutant: the delete is not restricted to the device of the call.
InDeleteWindow_AnyDevice(row, device_id, from_date, to_date) ==
    /\ row.start_time >= from_date
    /\ row.end_time <= to_date

\* The WHERE clause of the delete at the head of detect_trips.
InDeleteWindow(row, device_id, from_date, to_date) ==
    /\ row.device_id = device_id
    /\ row.start_time >= from_date
    /\ row.end_time <= to_date

\* The rows of the table that the delete removes.
DeletedRows(tbl, device_id, from_date, to_date) ==
    LET hit == {r \in BagToSet(tbl) : InDeleteWindow(r, device_id, from_date, to_date)}
    IN  [r \in hit |-> CopiesIn(r, tbl)]

\* ------------------------------------------------------- trips and stops
\* The limit that compute_stops_from_trips passes to get_trips.
StopsTripLimit == 10000

\* Mutant: the query also returns a trip that ends after to_date.
TripMatches_StartOnly(row, device_id, from_date, to_date) ==
    /\ row.device_id = device_id
    /\ row.start_time >= from_date

\* The WHERE clauses of get_trips.  A device id and a datetime are truthy,
\* so each of the three filters is applied.
TripMatches(row, device_id, from_date, to_date) ==
    /\ row.device_id = device_id
    /\ row.start_time >= from_date
    /\ row.end_time <= to_date

\* ORDER BY start_time DESC: the rows of a bag in every order the database
\* may return them (rows with equal start_time come in any order).
RECURSIVE DescOrders(_)
DescOrders(bag) ==
    IF BagToSet(bag) = {} THEN {<<>>}
    ELSE LET latest == {r \in BagToSet(bag) :
                           \A q \in BagToSet(bag) : r.start_time >= q.start_time}
         IN  UNION {{<<r>> \o rest : rest \in DescOrders(bag (-) SetToBag({r}))} :
                    r \in latest}

\* Mutant: the limit is ignored.
Take_All(seq, n) == seq

\* LIMIT n
Take(seq, n) == SubSeq(seq, 1, IF Len(seq) < n THEN Len(seq) ELSE n)

\* get_trips: the lists the query may return.
get_trips(tbl, device_id, from_date, to_date, limit) ==
    LET hit == {r \in BagToSet(tbl) : TripMatches(r, device_id, from_date, to_date)}
    IN  {Take(q, limit) : q \in DescOrders([r \in hit |-> CopiesIn(r, tbl)])}

\* sorted(trips, key=start_time): a stable insertion of x into a sorted list.
RECURSIVE InsertByStart(_, _)
InsertByStart(sorted, x) ==
    IF sorted = <<>> THEN <<x>>
    ELSE IF Last(sorted).start_time <= x.start_time THEN Append(sorted, x)
    ELSE Append(InsertByStart(SubSeq(sorted, 1, Len(sorted) - 1), x), Last(sorted))

\* Mutant: the list is used in the order the query returned it.
SortedByStart_AsReturned(seq) == seq

RECURSIVE SortedByStart(_)
SortedByStart(seq) ==
    IF seq = <<>> THEN <<>>
    ELSE InsertByStart(SortedByStart(SubSeq(seq, 1, Len(seq) - 1)), Last(seq))

\* Mutant: an interval below TRIP_IDLE_THRESHOLD_SEC is a stop too.
LongEnoughStop_Always(cfg, duration) == TRUE

LongEnoughStop(cfg, duration) == duration >= cfg.TRIP_IDLE_THRESHOLD_SEC

\* Mutant: the stop is placed where the next trip starts.
StopBetween_AtNextStart(device_id, t1, t2) ==
    [device_id |-> device_id, latitude |-> t2.start_lat, longitude |-> t2.start_lon,
     arrival_time |-> t1.end_time, departure_time |-> t2.start_time,
     duration |-> t2.start_time - t1.end_time]

\* Mutant: the stop begins when the earlier trip starts.
StopBetween_FromTripStart(device_id, t1, t2) ==
    [device_id |-> device_id, latitude |-> t1.end_lat, longitude |-> t1.end_lon,
     arrival_time |-> t1.start_time, departure_time |-> t2.start_time,
     duration |-> t2.start_time - t1.start_time]

\* The dict appended for the interval between t1 and t2.
StopBetween(device_id, t1, t2) ==
    [device_id |-> device_id, latitude |-> t1.end_lat, longitude |-> t1.end_lon,
     arrival_time |-> t1.end_time, departure_time |-> t2.start_time,
     duration |-> t2.start_time - t1.end_time]

\* The loop over the adjacent pairs of trips_sorted, from pair i on.
RECURSIVE StopsFrom(_, _, _, _)
StopsFrom(cfg, device_id, trips_sorted, i) ==
    IF i >= Len(trips_sorted) THEN <<>>
    ELSE LET t1 == trips_sorted[i]
             t2 == trips_sorted[i + 1]
             here == IF /\ t2.start_time > t1.end_time
                        /\ LongEnoughStop(cfg, t2.start_time - t1.end_time)
                     THEN <<StopBetween(device_id, t1, t2)>>
                     ELSE <<>>
         IN  here \o StopsFrom(cfg, device_id, trips_sorted, i + 1)

\* compute_stops_from_trips: the (trips_sorted, stops) pairs a call may
\* compute over the table as its session sees it.
compute_stops_from_trips(cfg, tbl, device_id, from_date, to_date) ==
    {[trips_sorted |-> SortedByStart(q),
      stops |-> StopsFrom(cfg, device_id, SortedByStart(q), 1)] :
     q \in get_trips(tbl, device_id, from_date, to_date, StopsTripLimit)}

\* Mutant: the derivation clears the trips of the window.
TableAfterStops_WindowCleared(tbl, device_id, from_date, to_date) ==
    tbl (-) DeletedRows(tbl, device_id, from_date, to_date)

\* The committed trips after compute_stops_from_trips: it executes one
\* select and neither adds, deletes nor commits; its stops are dicts, not
\* rows of the stops table.
TableAfterStops(tbl, device_id, from_date, to_date) == tbl

\* ------------------------------------------------------------- sessions
IdleSession ==
    [pc |-> "idle", route |-> "", device_id |-> 0, from_date |-> 0, to_date |-> 0,
     deleted |-> EmptyBag, positions |-> <<>>, i |-> 0,
     current_trip |-> None, trips |-> <<>>,
     trips_sorted |-> <<>>, stops |-> <<>>,
     limit |-> 0, listed |-> <<>>]

SameCall(c, device_id, from_date, to_date) ==
    /\ c.device_id = device_id
    /\ c.from_date = from_date
    /\ c.to_date = to_date

\* Mutant: only an empty window returns early.
TooFewPositions_OnlyEmpty(ps) == Len(ps) < 1

\* if len(positions) < 2: return
TooFewPositions(ps) == Len(ps) < 2

\* Mutant: a window of one instant is rejected too.
InvalidRange_OrEqual(from_date, to_date) == from_date >= to_date

\* The test of both route handlers before they call detect_trips.
InvalidRange(from_date, to_date) == from_date > to_date

\* A route handler raises HTTPException(400) for its window: the request
\* ends without a call of the service.
RejectRequest(s, route, device_id, from_date, to_date) ==
    /\ sess[s].pc = "idle"
    /\ InvalidRange(from_date, to_date)
    /\ sess' = [sess EXCEPT ![s] =
                    [IdleSession EXCEPT !.pc = "rejected", !.route = route,
                                        !.device_id = device_id,
                                        !.from_date = from_date,
                                        !.to_date = to_date]]
    /\ UNCHANGED <<settings, positions, trips, stop_rows>>

\* detect_trips up to the loop, called by the handler of a route: the
\* delete, the select and the early return.  The callers reject
\* from_date > to_date before the call.
DetectCall(s, route, device_id, from_date, to_date) ==
    /\ sess[s].pc = "idle"
    /\ ~InvalidRange(from_date, to_date)
    /\ LET ps == SelectPositions(positions, device_id, from_date, to_date)
       IN  sess' = [sess EXCEPT ![s] =
                [pc |-> IF TooFewPositions(ps) THEN "returned" ELSE "loop",
                 route |-> route,
                 device_id |-> device_id,
                 from_date |-> from_date,
                 to_date |-> to_date,
                 deleted |-> DeletedRows(trips, device_id, from_date, to_date),
                 positions |-> ps,
                 i |-> 1,
                 current_trip |-> None,
                 trips |-> <<>>,
                 trips_sorted |-> <<>>,
                 stops |-> <<>>,
                 limit |-> 0,
                 listed |-> <<>>]]
    /\ UNCHANGED <<settings, positions, trips, stop_rows>>

\* POST /api/reports/trips with a device_id: detect_trips for the window.
\* The reads of the handler after it change nothing and are left out.
DetectBegin(s, device_id, from_date, to_date) ==
    DetectCall(s, "report", device_id, from_date, to_date)

\* Mutant: the stops route goes to the stops without detect_trips.
GetStopsBegin_NoDetect(s, device_id, from_date, to_date) ==
    /\ sess[s].pc = "idle"
    /\ from_date <= to_date
    /\ sess' = [sess EXCEPT ![s] =
                    [IdleSession EXCEPT !.pc = "returned", !.route = "stops",
                                        !.device_id = device_id,
                                        !.from_date = from_date,
                                        !.to_date = to_date]]
    /\ UNCHANGED <<settings, positions, trips, stop_rows>>

\* GET /api/stops: detect_trips for the window, then the stops.
GetStopsBegin(s, device_id, from_date, to_date) ==
    DetectCall(s, "stops", device_id, from_date, to_date)

\* One iteration of the loop.
LoopStep(s) ==
    /\ sess[s].pc = "loop"
    /\ sess[s].i <= Len(sess[s].positions)
    /\ LET st == LoopBody(settings, sess[s].device_id, sess[s].positions, sess[s].i,
                          [current_trip |-> sess[s].current_trip, trips |-> sess[s].trips])
       IN  sess' = [sess EXCEPT ![s].current_trip = st.current_trip,
                                ![s].trips = st.trips,
                                ![s].i = @ + 1]
    /\ UNCHANGED <<settings, positions, trips, stop_rows>>

\* After the loop: the last trip, session.add of every trip, session.commit.
\* The stops list of detect_trips stays empty and no Stop is added.
DetectSave(s) ==
    /\ sess[s].pc = "loop"
    /\ sess[s].i > Len(sess[s].positions)
    /\ LET kept == FinishLastTrip(settings,
                       [current_trip |-> sess[s].current_trip, trips |-> sess[s].trips])
       IN  /\ trips' = (trips (-) sess[s].deleted) (+) AddedRows(kept, 1)
           /\ sess' = [sess EXCEPT ![s].pc = "committed",
                                   ![s].current_trip = None,
                                   ![s].trips = kept,
                                   ![s].deleted = EmptyBag]
    /\ UNCHANGED <<settings, positions, stop_rows>>

\* An awaited statement of detect_trips (an execute, the commit) raises: the
\* exception leaves detect_trips and the handler, nothing is committed.
PersistenceFailure(s) ==
    /\ sess[s].pc = "loop"
    /\ sess' = [sess EXCEPT ![s].pc = "failed"]
    /\ UNCHANGED <<settings, positions, trips, stop_rows>>

\* The default limit of get_trips, which the route handlers leave as it is.
DefaultTripLimit == 100

\* POST /api/reports/trips with a device_id, with its read of the trips:
\* detect_trips for the window, then get_trips.
TripReportBegin(s, device_id, from_date, to_date) ==
    DetectCall(s, "trips", device_id, from_date, to_date)

\* The get_trips call of the report after detect_trips has returned, over
\* the table as the session sees it.
ReportRead(s) ==
    /\ sess[s].route = "trips"
    /\ sess[s].pc \in {"returned", "committed"}
    /\ \E q \in get_trips(trips (-) sess[s].deleted, sess[s].device_id,
                           sess[s].from_date, sess[s].to_date, DefaultTripLimit) :
           sess' = [sess EXCEPT ![s].pc = "read",
                                ![s].limit = DefaultTripLimit,
                                ![s].listed = q]
    /\ UNCHANGED <<settings, positions, trips, stop_rows>>

\* get_trips called without detect_trips before it, in a fresh session
\* (as the trip summary route does, with the default limit).
GetTripsCall(s, device_id, from_date, to_date, limit) ==
    /\ sess[s].pc = "idle"
    /\ ~InvalidRange(from_date, to_date)
    /\ \E q \in get_trips(trips, device_id, from_date, to_date, limit) :
           sess' = [sess EXCEPT ![s] =
                       [IdleSession EXCEPT !.pc = "read", !.route = "list",
                                           !.device_id = device_id,
                                           !.from_date = from_date,
                                           !.to_date = to_date,
                                           !.limit = limit,
                                           !.listed = q]]
    /\ UNCHANGED <<settings, positions, trips, stop_rows>>

\* GET /api/stops after detect_trips has returned: the stops over the
\* table as the session sees it (its own uncommitted delete included).
RouteStops(s) ==
    /\ sess[s].route = "stops"
    /\ sess[s].pc \in {"returned", "committed"}
    /\ \E c \in compute_stops_from_trips(settings, trips (-) sess[s].deleted,
                   sess[s].device_id, sess[s].from_date, sess[s].to_date) :
           sess' = [sess EXCEPT ![s].pc = "stops",
                                ![s].trips_sorted = c.trips_sorted,
                                ![s].stops = c.stops]
    /\ trips' = TableAfterStops(trips, sess[s].device_id, sess[s].from_date,
                                sess[s].to_date)
    /\ UNCHANGED <<settings, positions, stop_rows>>

\* compute_stops_from_trips called on its own, in a fresh session.
DeriveStops(s, device_id, from_date, to_date) ==
    /\ sess[s].pc = "idle"
    /\ from_date <= to_date
    /\ \E c \in compute_stops_from_trips(settings, trips, device_id, from_date, to_date) :
           sess' = [sess EXCEPT ![s] =
                       [IdleSession EXCEPT !.pc = "stops", !.route = "derive",
                                           !.device_id = device_id,
                                           !.from_date = from_date,
                                           !.to_date = to_date,
                                           !.trips_sorted = c.trips_sorted,
                                           !.stops = c.stops]]
    /\ trips' = TableAfterStops(trips, device_id, from_date, to_date)
    /\ UNCHANGED <<settings, positions, stop_rows>>

\* Mutant: the delete of a session that did not commit stays in the table.
RolledBack_DeleteKept(tbl, deleted) == tbl (-) deleted

\* The table after a session is closed: its uncommitted delete is undone.
RolledBack(tbl, deleted) == tbl

\* get_db closes the session when the request ends: what was not committed
\* is rolled back.  A stops request closes after its stops are computed.
SessionClose(s) ==
    /\ \/ sess[s].pc \in {"returned", "committed"} /\ sess[s].route = "report"
       \/ sess[s].pc \in {"stops", "failed", "rejected", "read"}
    /\ trips' = RolledBack(trips, sess[s].deleted)
    /\ sess' = [sess EXCEPT ![s] = IdleSession]
    /\ UNCHANGED <<settings, positions, stop_rows>>

\* ------------------------------------------- the websocket ConnectionManager
\* (backend/app/api/websocket.py).  active_connections and
\* client_subscriptions are dicts: functions whose DOMAIN is the set of keys.

\* The websockets of the clients.
Sockets == {"a", "b", "c"}

\* The device lists a client connects with: /ws/tracker closes a connection
\* that names no device before it reaches connect.
DeviceLists == (SUBSET Devices) \ {{}}

BroadcastKinds == {"position", "trip_start", "trip_end"}

\* No broadcast_* call in progress.  si_used is the size the set iterator
\* recorded when the loop began, targets the content of the set at that
\* moment, visited the websockets the loop has yielded (each one is sent to),
\* detached whether the iterated set object is no longer the value of
\* active_connections[device_id] (its key was deleted).
IdleBroadcast ==
    [pc |-> "idle", kind |-> "", device_id |-> 0, si_used |-> 0,
     detached |-> FALSE, targets |-> {}, visited |-> {},
     disconnected |-> <<>>, delivered |-> {}]

ManagerInit ==
    /\ active_connections = <<>>
    /\ client_subscriptions = <<>>
    /\ broadcast = IdleBroadcast

\* connect, the registration: client_subscriptions[websocket] = set(device_ids).
SetSubscriptions(cs, websocket, device_ids) ==
    [x \in DOMAIN cs \cup {websocket} |-> IF x = websocket THEN device_ids ELSE cs[x]]

\* connect, the loop over device_ids: the set of a device is created when
\* the key is missing, and the websocket added to it.
AddSubscriber(ac, websocket, device_ids) ==
    [d \in DOMAIN ac \cup device_ids |->
        IF d \in device_ids
        THEN (IF d \in DOMAIN ac THEN ac[d] ELSE {}) \cup {websocket}
        ELSE ac[d]]

\* Mutant: disconnect reads the subscriptions but leaves the entry.
PopSubscriptions_Kept(cs, websocket) == cs

\* disconnect: client_subscriptions.pop(websocket, set()), the dict it leaves.
PopSubscriptions(cs, websocket) == [x \in DOMAIN cs \ {websocket} |-> cs[x]]

\* disconnect: client_subscriptions.pop(websocket, set()), the value it returns.
PoppedDeviceIds(cs, websocket) == IF websocket \in DOMAIN cs THEN cs[websocket] ELSE {}

\* Mutant: the key of a device stays when its set becomes empty.
DiscardSubscriber_KeepsEmptyKey(ac, websocket, device_ids) ==
    [d \in DOMAIN ac |-> IF d \in device_ids THEN ac[d] \ {websocket} ELSE ac[d]]

\* Mutant: the websocket is discarded from the set of one device only.
DiscardSubscriber_OneDevice(ac, websocket, device_ids) ==
    LET hit == {d \in device_ids \cap DOMAIN ac : \A e \in device_ids \cap DOMAIN ac : d <= e}
        kept == {d \in DOMAIN ac : ~(d \in hit /\ ac[d] \ {websocket} = {})}
    IN  [d \in kept |-> IF d \in hit THEN ac[d] \ {websocket} ELSE ac[d]]

\* disconnect, the loop over device_ids: the websocket is discarded from the
\* set of each of them that is a key, and a set that became empty is deleted.
DiscardSubscriber(ac, websocket, device_ids) ==
    LET kept == {d \in DOMAIN ac : ~(d \in device_ids /\ ac[d] \ {websocket} = {})}
    IN  [d \in kept |-> IF d \in device_ids THEN ac[d] \ {websocket} ELSE ac[d]]

\* disconnect(websocket): the two registries it leaves.
disconnect(ac, cs, websocket) ==
    [active_connections |-> DiscardSubscriber(ac, websocket, PoppedDeviceIds(cs, websocket)),
     client_subscriptions |-> PopSubscriptions(cs, websocket)]

\* Mutant: the websockets whose send failed are not disconnected.
DisconnectAll_None(ac, cs, disconnected) ==
    [active_connections |-> ac, client_subscriptions |-> cs]

RECURSIVE DisconnectAll(_, _, _)
\* broadcast_position, after the loop: for ws in disconnected: self.disconnect(ws).
DisconnectAll(ac, cs, disconnected) ==
    IF disconnected = <<>>
    THEN [active_connections |-> ac, client_subscriptions |-> cs]
    ELSE LET after == disconnect(ac, cs, Head(disconnected))
         IN  DisconnectAll(after.active_connections, after.client_subscriptions,
                           Tail(disconnected))

\* The set object a running broadcast iterates is the value of
\* active_connections[device_id] until disconnect deletes that key; from then
\* on it is an empty set that no dict holds (a later connect makes a new set).
Detached(b, ac_after) ==
    b.detached \/ (b.pc = "sending" /\ b.device_id \notin DOMAIN ac_after)

\* The content of the set object the running broadcast iterates.
IteratedSet ==
    IF broadcast.detached THEN {} ELSE active_connections[broadcast.device_id]

\* ConnectionManager.connect(websocket, device_ids).
Connect(websocket, device_ids) ==
    /\ client_subscriptions' = SetSubscriptions(client_subscriptions, websocket, device_ids)
    /\ active_connections' = AddSubscriber(active_connections, websocket, device_ids)
    /\ UNCHANGED <<broadcast, db>>

\* /ws/tracker: a new websocket with a non-empty device list is connected.
EndpointConnect(websocket, device_ids) ==
    /\ websocket \notin DOMAIN client_subscriptions
    /\ Connect(websocket, device_ids)

\* ConnectionManager.disconnect(websocket).
Disconnect(websocket) ==
    LET after == disconnect(active_connections, client_subscriptions, websocket)
    IN  /\ active_connections' = after.active_connections
        /\ client_subscriptions' = after.client_subscriptions
        /\ broadcast' = [broadcast EXCEPT !.detached = Detached(broadcast, after.active_connections)]
        /\ UNCHANGED db

\* broadcast_position / broadcast_trip_start / broadcast_trip_end up to the
\* loop: a device that is no key returns at once, otherwise the iterator over
\* active_connections[device_id] is made.
BroadcastBegin(kind, device_id) ==
    /\ broadcast.pc # "sending"
    /\ broadcast' =
           IF device_id \notin DOMAIN active_connections
           THEN [IdleBroadcast EXCEPT !.pc = "done", !.kind = kind, !.device_id = device_id]
           ELSE [IdleBroadcast EXCEPT !.pc = "sending", !.kind = kind,
                                      !.device_id = device_id,
                                      !.si_used = Cardinality(active_connections[device_id]),
                                      !.targets = active_connections[device_id]]
    /\ UNCHANGED <<active_connections, client_subscriptions, db>>

\* The for statement asks the set iterator for the next websocket.  CPython's
\* set iterator first compares the size of the set with the size it recorded
\* and raises RuntimeError("Set changed size during iteration") when they
\* differ; nothing in broadcast_* catches it (the try covers send_text only).
BroadcastRaise ==
    /\ broadcast.pc = "sending"
    /\ Cardinality(IteratedSet) # broadcast.si_used
    /\ broadcast' = [broadcast EXCEPT !.pc = "raised"]
    /\ UNCHANGED <<active_connections, client_subscriptions, db>>

\* One iteration of the loop: the iterator yields a websocket it has not
\* yielded (in no particular order) and send_text is awaited; it succeeds or
\* raises.  On a failure broadcast_position appends the websocket to
\* disconnected, broadcast_trip_start and broadcast_trip_end call
\* self.disconnect(websocket) at once.
BroadcastSend(websocket, ok) ==
    /\ broadcast.pc = "sending"
    /\ Cardinality(IteratedSet) = broadcast.si_used
    /\ websocket \in IteratedSet \ broadcast.visited
    /\ LET yielded == [broadcast EXCEPT !.visited = @ \cup {websocket}]
           after == disconnect(active_connections, client_subscriptions, websocket)
       IN  IF ok
           THEN /\ broadcast' = [yielded EXCEPT !.delivered = @ \cup {websocket}]
                /\ UNCHANGED <<active_connections, client_subscriptions>>
           ELSE IF broadcast.kind = "position"
           THEN /\ broadcast' = [yielded EXCEPT !.disconnected = Append(@, websocket)]
                /\ UNCHANGED <<active_connections, client_subscriptions>>
           ELSE /\ active_connections' = after.active_connections
                /\ client_subscriptions' = after.client_subscriptions
                /\ broadcast' = [yielded EXCEPT !.detached =
                                     Detached(broadcast, after.active_connections)]
    /\ UNCHANGED db

\* The iterator is exhausted and the loop ends; broadcast_position then
\* disconnects the websockets it collected.  (After a change that left the
\* size of the set the same the iterator may pass over a websocket added
\* since the loop began.)
BroadcastFinish ==
    /\ broadcast.pc = "sending"
    /\ Cardinality(IteratedSet) = broadcast.si_used
    /\ (IteratedSet \ broadcast.visited) \cap broadcast.targets = {}
    /\ LET after == IF broadcast.kind = "position"
                    THEN DisconnectAll(active_connections, client_subscriptions,
                                       broadcast.disconnected)
                    ELSE [active_connections |-> active_connections,
                          client_subscriptions |-> client_subscriptions]
       IN  /\ active_connections' = after.active_connections
           /\ client_subscriptions' = after.client_subscriptions
    /\ broadcast' = [broadcast EXCEPT !.pc = "done"]
    /\ UNCHANGED db

\* --------------------------------------------------------- specification
Init ==
    /\ \/ /\ settings \in SmallSettings
          /\ positions \in GridStreams(1)
       \/ /\ settings = DefaultSettings
          /\ positions \in {ScenarioA, ScenarioB, ScenarioC}
    /\ trips = EmptyBag
    /\ stop_rows = EmptyBag
    /\ sess = [s \in Sessions |-> IdleSession]
    /\ lastCall = <<>>
    /\ ManagerInit

\* Requests are served one at a time, by session 1, for device 1.
Next ==
    \/ \E from_date \in WindowTimes, to_date \in WindowTimes :
           DetectBegin(1, 1, from_date, to_date) /\ UNCHANGED <<lastCall, manager>>
    \/ LoopStep(1) /\ UNCHANGED <<lastCall, manager>>
    \/ DetectSave(1) /\ UNCHANGED <<lastCall, manager>>
    \/ SessionClose(1) /\ UNCHANGED <<lastCall, manager>>

Spec == Init /\ [][Next]_vars

\* The same requests, with the record of the last completed call: a call
\* with other arguments starts a new record, a call with the same arguments
\* keeps what its first run left.
NextTwice ==
    \/ \E from_date \in WindowTimes, to_date \in WindowTimes :
           /\ DetectBegin(1, 1, from_date, to_date)
           /\ lastCall' = IF lastCall # <<>> /\ SameCall(lastCall[1], 1, from_date, to_date)
                          THEN lastCall ELSE <<>>
           /\ UNCHANGED manager
    \/ LoopStep(1) /\ UNCHANGED <<lastCall, manager>>
    \/ DetectSave(1) /\ UNCHANGED <<lastCall, manager>>
    \/ /\ SessionClose(1)
       /\ lastCall' =
              IF lastCall = <<>>
              THEN <<[device_id |-> sess[1].device_id, from_date |-> sess[1].from_date,
                      to_date |-> sess[1].to_date, trips_after |-> trips, runs |-> 1]>>
              ELSE <<[lastCall[1] EXCEPT !.runs = 2]>>
       /\ UNCHANGED manager

SpecTwice == Init /\ [][NextTwice]_vars

\* Two devices.  Device 1 reports any bounded stream of slow and fast
\* positions, device 2 two fast positions a second apart; the requests name
\* either device.
FastStreams(d) ==
    {{PositionRow(d, t, BaseLat + t, 9), PositionRow(d, t + 1, BaseLat + t + 1, 9)} :
     t \in 0..(MaxT - 1)}

SlowFastStreams(d) ==
    UNION {{{PositionRow(d, t, BaseLat + t, sp[t]) : t \in T} : sp \in [T -> {4, 9}]} :
           T \in {X \in SUBSET (0..MaxT) : Cardinality(X) <= MaxPos}}

InitDevices ==
    /\ settings \in SmallSettings
    /\ \E a \in SlowFastStreams(1), b \in FastStreams(2) : positions = a \cup b
    /\ trips = EmptyBag
    /\ stop_rows = EmptyBag
    /\ sess = [s \in Sessions |-> IdleSession]
    /\ lastCall = <<>>
    /\ ManagerInit

NextDevices ==
    \/ \E device_id \in Devices, from_date \in WindowTimes, to_date \in WindowTimes :
           DetectBegin(1, device_id, from_date, to_date) /\ UNCHANGED <<lastCall, manager>>
    \/ LoopStep(1) /\ UNCHANGED <<lastCall, manager>>
    \/ DetectSave(1) /\ UNCHANGED <<lastCall, manager>>
    \/ SessionClose(1) /\ UNCHANGED <<lastCall, manager>>

SpecDevices == InitDevices /\ [][NextDevices]_vars

\* Two requests for device 1 at once, each in its own session.  Nothing in
\* detect_trips or its callers takes a lock; the database (READ COMMITTED)
\* makes a delete wait only for a row that another session's uncommitted
\* delete holds.
RowLocked(s, device_id, from_date, to_date) ==
    \E o \in Sessions \ {s} :
        \E r \in BagToSet(sess[o].deleted) :
            InDeleteWindow(r, device_id, from_date, to_date)

InitConc ==
    /\ settings \in SmallSettings
    /\ positions \in SlowFastStreams(1)
    /\ trips = EmptyBag
    /\ stop_rows = EmptyBag
    /\ sess = [s \in Sessions |-> IdleSession]
    /\ lastCall = <<>>
    /\ ManagerInit

NextConc ==
    \E s \in Sessions :
        \/ \E from_date \in WindowTimes, to_date \in WindowTimes :
               /\ ~RowLocked(s, 1, from_date, to_date)
               /\ DetectBegin(s, 1, from_date, to_date)
               /\ UNCHANGED <<lastCall, manager>>
        \/ LoopStep(s) /\ UNCHANGED <<lastCall, manager>>
        \/ DetectSave(s) /\ UNCHANGED <<lastCall, manager>>
        \/ SessionClose(s) /\ UNCHANGED <<lastCall, manager>>

SpecConc == InitConc /\ [][NextConc]_vars

\* The requests of the service for device 1, one at a time: the trip
\* report, the stops route, a stops derivation on its own, and a request
\* whose database statement fails.
InitService ==
    /\ \/ /\ settings \in SmallSettings
          /\ positions \in SlowFastStreams(1)
       \/ /\ settings = DefaultSettings
          /\ positions \in {ScenarioA, ScenarioC, ScenarioD, ScenarioParts}
       \/ /\ settings = HourIdleSettings
          /\ positions = ScenarioD
    /\ trips = EmptyBag
    /\ stop_rows = EmptyBag
    /\ sess = [s \in Sessions |-> IdleSession]
    /\ lastCall = <<>>
    /\ ManagerInit

NextService ==
    \/ \E from_date \in WindowTimes, to_date \in WindowTimes :
           DetectBegin(1, 1, from_date, to_date) /\ UNCHANGED <<lastCall, manager>>
    \/ \E from_date \in WindowTimes, to_date \in WindowTimes :
           GetStopsBegin(1, 1, from_date, to_date) /\ UNCHANGED <<lastCall, manager>>
    \/ \E from_date \in WindowTimes, to_date \in WindowTimes :
           DeriveStops(1, 1, from_date, to_date) /\ UNCHANGED <<lastCall, manager>>
    \/ \E route \in {"report", "stops"}, from_date \in WindowTimes, to_date \in WindowTimes :
           RejectRequest(1, route, 1, from_date, to_date) /\ UNCHANGED <<lastCall, manager>>
    \/ LoopStep(1) /\ UNCHANGED <<lastCall, manager>>
    \/ DetectSave(1) /\ UNCHANGED <<lastCall, manager>>
    \/ RouteStops(1) /\ UNCHANGED <<lastCall, manager>>
    \/ PersistenceFailure(1) /\ UNCHANGED <<lastCall, manager>>
    \/ SessionClose(1) /\ UNCHANGED <<lastCall, manager>>

SpecService == InitService /\ [][NextService]_vars

\* Two requests at once for two devices: session 1 serves device 1 and
\* session 2 device 2, their steps interleaved in any way.  Device 1
\* reports any bounded stream of fast positions, device 2 a fast position
\* at seconds 0 and 1.
AllFastStreams(d) ==
    {{PositionRow(d, t, BaseLat + t, 9) : t \in T} :
     T \in {X \in SUBSET (0..MaxT) : Cardinality(X) <= MaxPos}}

InitPar ==
    /\ settings \in SmallSettings
    /\ \E a \in AllFastStreams(1) :
           positions = a \cup {PositionRow(2, 0, BaseLat, 9),
                               PositionRow(2, 1, BaseLat + 1, 9)}
    /\ trips = EmptyBag
    /\ stop_rows = EmptyBag
    /\ sess = [s \in Sessions |-> IdleSession]
    /\ lastCall = <<>>
    /\ ManagerInit

NextPar ==
    \E s \in Sessions :
        \/ \E from_date \in WindowTimes, to_date \in WindowTimes :
               DetectBegin(s, s, from_date, to_date) /\ UNCHANGED <<lastCall, manager>>
        \/ LoopStep(s) /\ UNCHANGED <<lastCall, manager>>
        \/ DetectSave(s) /\ UNCHANGED <<lastCall, manager>>
        \/ SessionClose(s) /\ UNCHANGED <<lastCall, manager>>

SpecPar == InitPar /\ [][NextPar]_vars

\* The trips report and the trip lists for device 1, one request at a
\* time; a list is asked for with the default limit or a limit of 1 or 2.
TripLimits == {1, 2, DefaultTripLimit}

InitReport ==
    /\ settings \in SmallSettings
    /\ positions \in SlowFastStreams(1)
    /\ trips = EmptyBag
    /\ stop_rows = EmptyBag
    /\ sess = [s \in Sessions |-> IdleSession]
    /\ lastCall = <<>>
    /\ ManagerInit

NextReport ==
    \/ \E from_date \in WindowTimes, to_date \in WindowTimes :
           TripReportBegin(1, 1, from_date, to_date) /\ UNCHANGED <<lastCall, manager>>
    \/ \E from_date \in WindowTimes, to_date \in WindowTimes, limit \in TripLimits :
           GetTripsCall(1, 1, from_date, to_date, limit) /\ UNCHANGED <<lastCall, manager>>
    \/ LoopStep(1) /\ UNCHANGED <<lastCall, manager>>
    \/ DetectSave(1) /\ UNCHANGED <<lastCall, manager>>
    \/ ReportRead(1) /\ UNCHANGED <<lastCall, manager>>
    \/ SessionClose(1) /\ UNCHANGED <<lastCall, manager>>

SpecReport == InitReport /\ [][NextReport]_vars

\* The websocket side alone: the tables are empty and no request is served.
InitWs ==
    /\ settings = DefaultSettings
    /\ positions = {}
    /\ trips = EmptyBag
    /\ stop_rows = EmptyBag
    /\ sess = [s \in Sessions |-> IdleSession]
    /\ lastCall = <<>>
    /\ ManagerInit

\* The calls on ws_manager one after the other: clients connect and
\* disconnect between the broadcasts, not while one is suspended in a send.
NextWs ==
    \/ \E websocket \in Sockets, device_ids \in DeviceLists :
           broadcast.pc # "sending" /\ EndpointConnect(websocket, device_ids)
    \/ \E websocket \in Sockets : broadcast.pc # "sending" /\ Disconnect(websocket)
    \/ \E kind \in BroadcastKinds, device_id \in Devices : BroadcastBegin(kind, device_id)
    \/ BroadcastRaise
    \/ \E websocket \in Sockets, ok \in BOOLEAN : BroadcastSend(websocket, ok)
    \/ BroadcastFinish

SpecWs == InitWs /\ [][NextWs]_vars

\* As NextWs, and connect is also called for a websocket that is registered.
NextWsReconnect ==
    \/ \E websocket \in Sockets, device_ids \in DeviceLists :
           broadcast.pc # "sending" /\ Connect(websocket, device_ids)
    \/ \E websocket \in Sockets : broadcast.pc # "sending" /\ Disconnect(websocket)
    \/ \E kind \in BroadcastKinds, device_id \in Devices : BroadcastBegin(kind, device_id)
    \/ BroadcastRaise
    \/ \E websocket \in Sockets, ok \in BOOLEAN : BroadcastSend(websocket, ok)
    \/ BroadcastFinish

SpecWsReconnect == InitWs /\ [][NextWsReconnect]_vars

\* The calls on ws_manager as the event loop runs them: while a broadcast is
\* suspended in an awaited send_text, the /ws/tracker tasks of other clients
\* run connect and disconnect.
NextWsConc ==
    \/ \E websocket \in Sockets, device_ids \in DeviceLists :
           EndpointConnect(websocket, device_ids)
    \/ \E websocket \in Sockets : Disconnect(websocket)
    \/ \E kind \in BroadcastKinds, device_id \in Devices : BroadcastBegin(kind, device_id)
    \/ BroadcastRaise
    \/ \E websocket \in Sockets, ok \in BOOLEAN : BroadcastSend(websocket, ok)
    \/ BroadcastFinish

SpecWsConc == InitWs /\ [][NextWsConc]_vars

TypeOK ==
    /\ IsABag(trips)
    /\ \A s \in Sessions : sess[s].pc \in {"idle", "loop", "returned", "committed", "failed", "stops", "rejected", "read"}
    /\ DOMAIN active_connections \subseteq Devices
    /\ DOMAIN client_subscriptions \subseteq Sockets
    /\ broadcast.pc \in {"idle", "sending", "done", "raised"}

\* ------------------------------------------------------------ properties
\* The call that session 1 is serving, or has just served.
Call == sess[1]

Rows == BagToSet(trips)

\* A position at or above the moving threshold of the settings.
Moving(p) == SpeedOrZero(p.speed) >= settings.TRIP_MIN_SPEED_KMH

Intersect(r1, r2) == r1.start_time <= r2.end_time /\ r2.start_time <= r1.end_time

\* The position the loop is about to process, and the one before it.
Pos == Call.positions[Call.i]
InLoop == Call.pc = "loop" /\ Call.i <= Len(Call.positions)
Open == Call.current_trip # None
OpenTrip == Call.current_trip[1]

\* C1: running detect_trips twice in succession with the same arguments
\* leaves the same persisted trips (rows compared without their ids) as
\* running it once.
C1_Idempotent ==
    (lastCall # <<>> /\ lastCall[1].runs = 2 /\ Call.pc = "idle")
        => trips = lastCall[1].trips_after

\* A second run has ended over a window in which the first run persisted a
\* trip, next to a trip that reaches beyond the window.
C1_Witness ==
    /\ lastCall # <<>> /\ lastCall[1].runs = 2 /\ Call.pc = "idle"
    /\ \E r \in Rows : InDeleteWindow(r, 1, lastCall[1].from_date, lastCall[1].to_date)
    /\ \E r \in Rows : ~InDeleteWindow(r, 1, lastCall[1].from_date, lastCall[1].to_date)

\* No two persisted trips of one device have intersecting intervals
\* [start_time, end_time]; a row persisted twice intersects itself.
NoOverlap ==
    \A r1 \in Rows :
        /\ CopiesIn(r1, trips) = 1
        /\ \A r2 \in Rows :
               (r1 # r2 /\ r1.device_id = r2.device_id) => ~Intersect(r1, r2)

\* C2, as claimed: after any sequence of completed detect_trips calls with
\* arbitrary windows, no two persisted trips of the device intersect.  It is
\* stated for a positive TRIP_MIN_DURATION_SEC, where every persisted trip
\* has two positions or more.
C2_NoOverlapAnyWindows ==
    settings.TRIP_MIN_DURATION_SEC > 0 => NoOverlap

\* The window of the call contains every persisted trip of its device that
\* it intersects.
WindowCoversItsTrips ==
    \A r \in Rows :
        (/\ r.device_id = Call.device_id
         /\ r.start_time <= Call.to_date
         /\ Call.from_date <= r.end_time)
            => InDeleteWindow(r, Call.device_id, Call.from_date, Call.to_date)

\* C2, amended: a detect_trips call whose window contains every persisted
\* trip of the device that it intersects keeps the persisted trips of the
\* device free of intersections; so does every sequence of such calls.
C2_NoOverlapCoveringWindows ==
    [][(NoOverlap /\ WindowCoversItsTrips) => NoOverlap']_vars

\* A covering call has committed next to a trip outside its window: two
\* trips are persisted.
C2_Witness ==
    /\ Call.pc = "committed"
    /\ Call.trips # <<>>
    /\ NoOverlap
    /\ \E r \in Rows : ~InDeleteWindow(r, 1, Call.from_date, Call.to_date)

\* The iteration closes the open trip because Pos is not moving (the gap
\* did not force the closure), and the closed trip is kept.
StopCloseStep ==
    /\ InLoop /\ Open
    /\ GapSec(Call.positions, Call.i) <= settings.TRIP_MAX_GAP_SEC
    /\ ~Moving(Pos)
    /\ Call'.pc = "loop" /\ Call'.i = Call.i + 1
    /\ Len(Call'.trips) = Len(Call.trips) + 1

ScenarioADone ==
    /\ settings = DefaultSettings /\ positions = ScenarioA
    /\ Call.pc = "committed" /\ Call.from_date = 0 /\ Call.to_date = 900

C5_DurationFloor ==
    /\ \A r \in Rows : r.duration >= settings.TRIP_MIN_DURATION_SEC
    /\ \A k \in 1..Len(Call.trips) :
           Call.trips[k].duration >= settings.TRIP_MIN_DURATION_SEC

\* A call has committed one trip and dropped the candidate of its last
\* position, which is moving and lies after the end of the kept trip.
C5_Witness ==
    /\ Call.pc = "committed" /\ Len(Call.trips) = 1
    /\ settings.TRIP_MIN_DURATION_SEC > 0
    /\ Moving(Last(Call.positions))
    /\ Last(Call.trips).end_time < Last(Call.positions).fix_time

\* C6, as claimed: every persisted trip has end_time > start_time, for every
\* TRIP_MIN_DURATION_SEC >= 0.
C6_EndAfterStart ==
    \A r \in Rows : r.end_time > r.start_time

\* C7: a call whose window holds fewer than two positions returns before the
\* loop: it adds no trip and leaves the persisted trips as they were.
C7_FewPositionsNoTrip ==
    [][(Call'.pc \in {"returned", "committed"} /\ Len(Call'.positions) < 2)
          => (Call'.pc = "returned" /\ Call'.trips = <<>> /\ trips' = trips)]_vars

\* A call over a window of one moving position has returned, with a trip of
\* the device persisted before.
C7_Witness ==
    /\ Call.pc = "returned" /\ Len(Call.positions) = 1
    /\ Moving(Call.positions[1])
    /\ Rows # {}

\* The iteration starts with a trip open and a gap above TRIP_MAX_GAP_SEC.
GapCloseStep ==
    /\ InLoop /\ Open
    /\ GapSec(Call.positions, Call.i) > settings.TRIP_MAX_GAP_SEC
    /\ Call'.pc = "loop" /\ Call'.i = Call.i + 1

\* C8: a position p that arrives more than TRIP_MAX_GAP_SEC after the
\* previous position closes the open trip at its last accumulated position,
\* which is the position before p: the gap belongs to no trip.  The closed
\* trip is kept if it is long enough.  p then opens a fresh trip that starts
\* at p if it is moving, and no trip is open otherwise.
C8_GapForcesClosure ==
    [][GapCloseStep =>
          LET e == Last(OpenTrip.positions)
              kept == e.fix_time - OpenTrip.start_time >= settings.TRIP_MIN_DURATION_SEC
          IN  /\ e = Call.positions[Call.i - 1]
              /\ IF kept
                 THEN /\ Len(Call'.trips) = Len(Call.trips) + 1
                      /\ Last(Call'.trips).end_time = e.fix_time
                      /\ Last(Call'.trips).end_position_id = e.id
                      /\ Last(Call'.trips).end_lat = e.latitude
                      /\ Last(Call'.trips).positions = OpenTrip.positions
                      /\ Last(Call'.trips).end_time < Pos.fix_time
                 ELSE Call'.trips = Call.trips
              /\ IF Moving(Pos)
                 THEN /\ Call'.current_trip # None
                      /\ Call'.current_trip[1].start_time = Pos.fix_time
                      /\ Call'.current_trip[1].start_position_id = Pos.id
                      /\ Call'.current_trip[1].positions = <<Pos>>
                 ELSE Call'.current_trip = None]_vars

\* The loop has just passed a moving position that came after a gap: a trip
\* of two positions was closed before the gap and a fresh trip starts after.
C8_Witness ==
    /\ Call.pc = "loop" /\ Call.i > 3 /\ Call.trips # <<>> /\ Open
    /\ GapSec(Call.positions, Call.i - 1) > settings.TRIP_MAX_GAP_SEC
    /\ Last(Call.trips).end_position_id = Call.positions[Call.i - 2].id
    /\ Last(Call.trips).position_count = 2
    /\ OpenTrip.start_position_id = Call.positions[Call.i - 1].id

\* C9: a gap equal to TRIP_MAX_GAP_SEC does not force closure: the trip stays
\* open and a moving position is appended to it.
C9_EqualGapKeepsTripOpen ==
    [][(/\ InLoop /\ Open
        /\ GapSec(Call.positions, Call.i) = settings.TRIP_MAX_GAP_SEC
        /\ Moving(Pos)
        /\ Call'.pc = "loop" /\ Call'.i = Call.i + 1)
          => /\ Call'.trips = Call.trips
             /\ Call'.current_trip # None
             /\ Call'.current_trip[1].positions = Append(OpenTrip.positions, Pos)
             /\ Call'.current_trip[1].start_time = OpenTrip.start_time]_vars

\* An open trip holds two positions that are TRIP_MAX_GAP_SEC apart.
C9_Witness ==
    /\ Call.pc = "loop" /\ Open /\ Len(OpenTrip.positions) >= 2
    /\ OpenTrip.positions[2].fix_time - OpenTrip.positions[1].fix_time
           = settings.TRIP_MAX_GAP_SEC

\* Every selected position of the call is below the moving threshold.
AllSlow ==
    \A k \in 1..Len(Call.positions) : ~Moving(Call.positions[k])

\* C10: when every position of the window is below TRIP_MIN_SPEED_KMH (or
\* has no speed), no trip is opened and the call persists no trip, whatever
\* the number of positions and the gaps between them.
C10_AllSlowNoTrip ==
    (Call.pc \in {"loop", "committed"} /\ AllSlow)
        => (Call.trips = <<>> /\ Call.current_trip = None)

\* A call over three slow positions, with a gap above TRIP_MAX_GAP_SEC
\* among them and a positive speed among them, has committed.
C10_Witness ==
    /\ Call.pc = "committed" /\ AllSlow /\ Len(Call.positions) = 3
    /\ \E k \in 2..3 : GapSec(Call.positions, k) > settings.TRIP_MAX_GAP_SEC
    /\ \E k \in 1..3 : Call.positions[k].speed > 0

\* The row is one that a call for (device_id, from_date, to_date) must delete.
InsideCall(r, c) ==
    r.device_id = c.device_id /\ r.start_time >= c.from_date /\ r.end_time <= c.to_date

\* C11: detect_trips(device, from, to) deletes exactly the persisted trips of
\* that device with start_time >= from and end_time <= to: its delete holds
\* every copy of these rows and no other row, after the commit the rows of
\* the window are the rows the call added, and the trips of another device,
\* or of the device but starting before from or ending after to, are in the
\* table after every step as often as before it.
C11_DeletesExactlyTheWindow ==
    [][/\ (Call.pc = "idle" /\ Call'.pc # "idle")
           => /\ \A r \in Rows : InsideCall(r, Call')
                     => (r \in BagToSet(Call'.deleted)
                         /\ CopiesIn(r, Call'.deleted) = CopiesIn(r, trips))
              /\ \A r \in BagToSet(Call'.deleted) : r \in Rows /\ InsideCall(r, Call')
       /\ (Call.pc = "loop" /\ Call'.pc = "committed")
           => \A r \in Rows \cup BagToSet(trips') :
                  InsideCall(r, Call)
                      => CopiesIn(r, trips') = CopiesIn(r, AddedRows(Call'.trips, 1))
       /\ \A r \in Rows \cup BagToSet(trips') :
              ~InsideCall(r, Call) => CopiesIn(r, trips') = CopiesIn(r, trips)]_vars

\* A call is past its delete: the delete holds a persisted trip, and the
\* table holds a trip of the other device and a trip of the same device
\* that starts before from_date.
C11_Witness ==
    /\ Call.pc = "loop" /\ Call.deleted # EmptyBag
    /\ \E r \in Rows : r.device_id # Call.device_id
    /\ \E r \in Rows : r.device_id = Call.device_id /\ r.start_time < Call.from_date

\* C12: detection for one device is mutually exclusive, so two concurrent
\* detect_trips calls for the same device leave what some serial order of
\* them leaves.  One call after the other never leaves a trip twice (the
\* second deletes what the first added in its window), so under mutual
\* exclusion the table holds every trip once.
C12_SerialOutcome ==
    \A r \in Rows : CopiesIn(r, trips) = 1

\* The persisted rows that a call for c's device and window must delete.
WindowBag(c) ==
    [r \in {q \in Rows : InsideCall(q, c)} |-> CopiesIn(r, trips)]

\* C13: the delete and the inserts of one detect_trips call are one atomic
\* unit.  The table changes only at the commit of a call that has gone
\* through all its positions, and then to the table without the rows of the
\* window plus every trip of the call; a failure before the commit leaves
\* the table as it was, and after it the request only ends (no retry).
C13_AtomicRecompute ==
    [][/\ trips' # trips
           => /\ Call.pc = "loop" /\ Call'.pc = "committed"
              /\ Call.i > Len(Call.positions)
              /\ trips' = (trips (-) WindowBag(Call)) (+) AddedRows(Call'.trips, 1)
       /\ Call.pc = "failed" => (Call'.pc = "idle" /\ trips' = trips)]_vars

\* A call has failed after its delete took a persisted trip and after its
\* loop built a trip.
C13_Witness ==
    Call.pc = "failed" /\ Call.deleted # EmptyBag /\ Call.trips # <<>>

\* The call of session 1 has computed its stops.
StopsDone == Call.pc = "stops"

\* C14: every stop that compute_stops_from_trips returns has a duration of
\* at least TRIP_IDLE_THRESHOLD_SEC.
C14_StopsAtLeastIdleThreshold ==
    StopsDone
        => \A k \in 1..Len(Call.stops) :
               Call.stops[k].duration >= settings.TRIP_IDLE_THRESHOLD_SEC

\* A call returned a stop of exactly TRIP_IDLE_THRESHOLD_SEC.
C14_Witness ==
    /\ StopsDone
    /\ \E k \in 1..Len(Call.stops) :
           Call.stops[k].duration = settings.TRIP_IDLE_THRESHOLD_SEC

\* Stop k of the call lies between trips i and i + 1 of its sorted trips.
StopOfPair(k, i) ==
    LET stop == Call.stops[k]
        t1 == Call.trips_sorted[i]
        t2 == Call.trips_sorted[i + 1]
    IN  /\ stop.arrival_time = t1.end_time
        /\ stop.departure_time = t2.start_time
        /\ stop.latitude = t1.end_lat
        /\ stop.longitude = t1.end_lon
        /\ stop.duration = t2.start_time - t1.end_time
        /\ stop.device_id = Call.device_id

\* C15: the trips of a stops call are taken in ascending start_time order,
\* and every returned stop lies between two trips adjacent in that order:
\* it arrives at the earlier trip's end_time, departs at the later trip's
\* start_time, lies at the earlier trip's end coordinates and lasts
\* departure - arrival.  Each pair gives at most one stop, in order, so no
\* stop precedes the first trip or follows the last and n trips give at
\* most n - 1 stops (none when n = 0).
C15_StopsBetweenAdjacentTrips ==
    StopsDone
        => /\ \A i \in 1..(Len(Call.trips_sorted) - 1) :
                  Call.trips_sorted[i].start_time <= Call.trips_sorted[i + 1].start_time
           /\ \E pair \in [1..Len(Call.stops) -> 1..(Len(Call.trips_sorted) - 1)] :
                  /\ \A k \in 1..Len(Call.stops) : StopOfPair(k, pair[k])
                  /\ \A k \in 1..(Len(Call.stops) - 1) : pair[k] < pair[k + 1]
           /\ Len(Call.trips_sorted) > 0 => Len(Call.stops) <= Len(Call.trips_sorted) - 1
           /\ Len(Call.trips_sorted) = 0 => Call.stops = <<>>

\* A call over three trips returned a stop whose earlier trip ends at
\* another latitude than its later trip starts.
C15_Witness ==
    /\ StopsDone /\ Len(Call.trips_sorted) = 3 /\ Len(Call.stops) >= 1
    /\ \E i \in 1..2 :
           /\ StopOfPair(1, i)
           /\ Call.trips_sorted[i].end_lat # Call.trips_sorted[i + 1].start_lat

\* Scenario D is in the table: the trips T1 (second 0 to 10:00, second 600)
\* and T2 (10:45, second 3300, to second 3900), once each, and the call has
\* derived the stops of the whole stream.
ScenarioDDone ==
    /\ positions = ScenarioD /\ StopsDone
    /\ Call.from_date = 0 /\ Call.to_date = 3900
    /\ {<<r.start_time, r.end_time, CopiesIn(r, trips)>> : r \in Rows}
           = {<<0, 600, 1>>, <<3300, 3900, 1>>}

\* C16: in scenario D, T1 ending at 10:00 and T2 starting at 10:45 give
\* exactly one stop, of 2700 s, at T1's end coordinates, when
\* TRIP_IDLE_THRESHOLD_SEC is 300, and no stop when it is 3600.
C16_ScenarioD ==
    ScenarioDDone
        => /\ settings.TRIP_IDLE_THRESHOLD_SEC = 300
                  => Call.stops = <<[device_id |-> 1, latitude |-> 43010,
                                     longitude |-> Lon, arrival_time |-> 600,
                                     departure_time |-> 3300, duration |-> 2700]>>
           /\ settings.TRIP_IDLE_THRESHOLD_SEC = 3600 => Call.stops = <<>>

\* Scenario D has been derived under the default threshold of 300 s.
C16_Witness ==
    ScenarioDDone /\ settings = DefaultSettings

\* Scenario D has been derived under the threshold of an hour.
ScenarioDHourDone ==
    ScenarioDDone /\ settings = HourIdleSettings

\* The trips table as the session of the call sees it: the committed rows
\* without the rows its own uncommitted delete holds.
Seen == trips (-) Call.deleted

\* The trip's interval [start_time, end_time] meets the window of the call.
MeetsWindow(r, c) ==
    r.device_id = c.device_id /\ r.start_time <= c.to_date /\ r.end_time >= c.from_date

\* How often the row is in the sorted trips of the call.
TimesUsed(r) ==
    Cardinality({i \in 1..Len(Call.trips_sorted) : Call.trips_sorted[i] = r})

\* C17 as claimed: compute_stops_from_trips takes into account every
\* persisted trip of the device whose interval meets [from_date, to_date],
\* also one that starts before from_date or ends after to_date.
C17_EveryTripMeetingWindowUsed ==
    StopsDone
        => \A r \in BagToSet(Seen) : MeetsWindow(r, Call) => TimesUsed(r) >= 1

\* C17 amended: compute_stops_from_trips takes into account exactly the
\* trips of the device with start_time >= from_date and end_time <=
\* to_date; a trip that starts before from_date or ends after to_date is
\* left out, although its interval meets the window.
C17_OnlyTripsInsideWindowUsed ==
    StopsDone
        => \A r \in BagToSet(Seen) \cup {Call.trips_sorted[i] : i \in 1..Len(Call.trips_sorted)} :
               TimesUsed(r) = IF InsideCall(r, Call) THEN CopiesIn(r, Seen) ELSE 0

\* A call used a trip of its window while the table held a trip that
\* meets the window and ends after to_date.
C17_Witness ==
    /\ StopsDone /\ Call.trips_sorted # <<>>
    /\ \E r \in BagToSet(Seen) : MeetsWindow(r, Call) /\ r.end_time > Call.to_date

\* The open interval (arrival_time, departure_time) of the stop holds a
\* time of the trip's interval [start_time, end_time].
DuringTrip(stop, r) ==
    r.start_time < stop.departure_time /\ r.end_time > stop.arrival_time

\* No returned stop covers time during a trip of the call's window.
NoStopDuringTrip ==
    \A k \in 1..Len(Call.stops) :
        \A r \in BagToSet(Seen) : InsideCall(r, Call) => ~DuringTrip(Call.stops[k], r)

\* C18 as claimed: no returned stop covers time during a persisted trip of
\* the device in the window, for any reachable persisted trip set (also
\* one left by detect_trips calls with shifting windows).  Stated for a
\* positive TRIP_MIN_DURATION_SEC, where no trip has length zero.
C18_NoStopDuringTripAnyTable ==
    (StopsDone /\ settings.TRIP_MIN_DURATION_SEC > 0) => NoStopDuringTrip

\* The trips of the call's window do not intersect one another.
WindowTripsDisjoint ==
    \A a, b \in BagToSet(Seen) :
        (InsideCall(a, Call) /\ InsideCall(b, Call) /\ a # b) => ~Intersect(a, b)

\* C18 amended: when the persisted trips of the device inside the window
\* do not intersect one another, no returned stop covers time during one
\* of them.
C18_NoStopDuringDisjointTrips ==
    (StopsDone /\ WindowTripsDisjoint) => NoStopDuringTrip

\* A call over disjoint trips, one of them longer than a moment, returned
\* a stop.
C18_Witness ==
    /\ StopsDone /\ WindowTripsDisjoint /\ Call.stops # <<>>
    /\ \E i \in 1..Len(Call.trips_sorted) :
           Call.trips_sorted[i].end_time > Call.trips_sorted[i].start_time

\* C19: compute_stops_from_trips is read-only: the step that computes the
\* stops of a call leaves the trips table as it was, adds no row to the
\* stops table, and leaves what the session has deleted but not committed.
C19_StopsReadOnly ==
    [][(Call.pc # "stops" /\ Call'.pc = "stops")
           => /\ trips' = trips
              /\ stop_rows' = stop_rows
              /\ Call'.deleted = Call.deleted]_vars

\* compute_stops_from_trips, called on its own over a window that holds
\* persisted trips, has returned a stop.
C19_Witness ==
    /\ StopsDone /\ Call.route = "derive" /\ Call.stops # <<>>
    /\ \E r \in Rows : InsideCall(r, Call)

\* The step belongs to a GET /api/stops request.
StopsRouteStep == Call.route = "stops" \/ Call'.route = "stops"

\* C20 as claimed: serving GET /api/stops does not change the persisted
\* trips; the route only reads and never runs the delete-and-reinsert.
C20_StopsRouteReadsOnly ==
    [][StopsRouteStep => trips' = trips]_vars

\* C20 amended: GET /api/stops for a window with from_date <= to_date
\* first runs detect_trips for its window,
\* whose delete holds the persisted trips of the window and whose commit
\* replaces them by the recomputed trips; the table changes at that commit
\* only, and the stops are computed after detect_trips, by a step that
\* leaves the table as it is.
C20_StopsRouteDetectsThenReads ==
    [][StopsRouteStep
           => /\ (Call.pc = "idle" /\ Call'.from_date <= Call'.to_date)
                  => /\ Call'.pc \in {"loop", "returned"}
                     /\ Call'.deleted = WindowBag(Call')
                     /\ trips' = trips
              /\ trips' # trips
                  => /\ Call.pc = "loop" /\ Call'.pc = "committed"
                     /\ trips' = (trips (-) WindowBag(Call)) (+) AddedRows(Call'.trips, 1)
              /\ Call'.pc = "stops"
                  => (Call.pc \in {"committed", "returned"} /\ trips' = trips)]_vars

\* A GET /api/stops request whose detect_trips built trips of its own has
\* returned a stop.
C20_Witness ==
    /\ StopsDone /\ Call.route = "stops" /\ Call.stops # <<>>
    /\ Call.trips # <<>>

\* C21: a request of GET /api/stops or POST /api/reports/trips whose
\* from_date is later than its to_date is rejected before detect_trips is
\* called: it deletes and inserts no trip, holds no pending delete and only
\* ends; a request whose from_date equals its to_date enters detect_trips.
C21_InvalidRangeRejected ==
    [][/\ (Call.pc = "idle" /\ Call'.route \in {"report", "stops"})
           => IF Call'.from_date > Call'.to_date
              THEN /\ Call'.pc = "rejected"
                   /\ Call'.deleted = EmptyBag
                   /\ trips' = trips
              ELSE Call'.pc \in {"loop", "returned"}
       /\ Call.pc = "rejected" => (Call'.pc = "idle" /\ trips' = trips)]_vars

\* A request is rejected whose window, turned round, holds a persisted trip.
C21_Witness ==
    /\ Call.pc = "rejected"
    /\ \E r \in Rows : r.start_time >= Call.to_date /\ r.end_time <= Call.from_date

\* A request with from_date = to_date has entered detect_trips.
C21_EqualAccepted ==
    Call.pc \in {"loop", "returned"} /\ Call.from_date = Call.to_date

\* The ids of the positions accumulated in a trip dict.
PosIds(trip) == {trip.positions[k].id : k \in 1..Len(trip.positions)}

\* The trip candidates of the call after a step: the closed trips of its
\* list and the open trip, if there is one.
Candidates(c) ==
    {c.trips[k] : k \in 1..Len(c.trips)}
        \cup (IF c.current_trip # None THEN {c.current_trip[1]} ELSE {})

\* C22: closing a trip is terminal during segmentation.  A step of the
\* loop, or the step after it, leaves every closed trip of the list as it
\* is (no position is appended to it) and only appends to the list, and no
\* position is in the accumulated list of two trip candidates.
C22_ClosingIsTerminal ==
    [][(Call.pc = "loop" /\ Call'.pc \in {"loop", "committed"})
           => /\ Len(Call'.trips) >= Len(Call.trips)
              /\ SubSeq(Call'.trips, 1, Len(Call.trips)) = Call.trips
              /\ \A a, b \in Candidates(Call') :
                     a # b => PosIds(a) \cap PosIds(b) = {}
              /\ \A j, k \in 1..Len(Call'.trips) :
                     j # k => PosIds(Call'.trips[j]) \cap PosIds(Call'.trips[k]) = {}]_vars

\* A trip is closed and in the list, and a later trip is open.
C22_Witness ==
    Call.pc = "loop" /\ Len(Call.trips) >= 1 /\ Open

\* The speed of a position, a missing speed taken as 0.
EffectiveSpeed(p) == IF p.speed = NoSpeed THEN 0 ELSE p.speed

AfterLoopStep == Call.pc = "loop" /\ Call'.pc = "committed"

\* C24: when the stream ends while a trip is open, detect_trips closes
\* the trip at its last accumulated position and applies the
\* TRIP_MIN_DURATION_SEC filter to it: a trip at or above the floor is
\* appended to the list with that position as end point, a shorter one is
\* dropped, and the trips closed before stay as they are.  After the step
\* no trip is open.
C24_OpenTripClosedAtEndOfStream ==
    [][AfterLoopStep
           => /\ Call'.current_trip = None
              /\ IF Open /\ Last(OpenTrip.positions).fix_time - OpenTrip.start_time
                                >= settings.TRIP_MIN_DURATION_SEC
                 THEN LET end_pos == Last(OpenTrip.positions)
                          trip == Last(Call'.trips)
                      IN  /\ Len(Call'.trips) = Len(Call.trips) + 1
                          /\ SubSeq(Call'.trips, 1, Len(Call.trips)) = Call.trips
                          /\ trip.positions = OpenTrip.positions
                          /\ trip.start_time = OpenTrip.start_time
                          /\ trip.end_position_id = end_pos.id
                          /\ trip.end_time = end_pos.fix_time
                          /\ trip.end_lat = end_pos.latitude
                          /\ trip.end_lon = end_pos.longitude
                          /\ trip.duration = end_pos.fix_time - OpenTrip.start_time
                          /\ TripRow(trip) \in BagToSet(trips')
                 ELSE Call'.trips = Call.trips]_vars

\* A call has committed a trip that ends at the last position of its
\* window, after an earlier trip of the same call.
C24_Witness ==
    /\ Call.pc = "committed" /\ Len(Call.trips) >= 2
    /\ Last(Call.trips).end_position_id = Last(Call.positions).id

\* A call has committed without the trip that was open at the end of its
\* stream: the trip was below TRIP_MIN_DURATION_SEC.
C24_ShortLastTripDropped ==
    /\ Call.pc = "committed" /\ Call.trips = <<>>
    /\ Moving(Last(Call.positions))

\* The request of a detect_trips call that has returned ends: its session
\* is closed.
DetectEnds == Call.pc \in {"returned", "committed"} /\ Call'.pc = "idle"

\* C25: after a completed detect_trips(device, from, to), once its session
\* has ended, the persisted trips of the device inside the window are
\* exactly the trips the segmentation of the window's positions gave, none
\* when the window held fewer than two positions: no trip persisted
\* before inside the window survives.
C25_WindowHoldsSegmentation ==
    [][DetectEnds
           => \A r \in Rows \cup BagToSet(trips') :
                  InsideCall(r, Call)
                      => CopiesIn(r, trips') = CopiesIn(r, AddedRows(Call.trips, 1))]_vars

\* The same, for calls whose window held two positions or more.
C25_HoldsAfterCommit ==
    [][(DetectEnds /\ Call.pc = "committed")
           => \A r \in Rows \cup BagToSet(trips') :
                  InsideCall(r, Call)
                      => CopiesIn(r, trips') = CopiesIn(r, AddedRows(Call.trips, 1))]_vars

\* C26: the trips that one detect_trips call builds all lie inside its
\* window, from_date <= start_time <= end_time <= to_date, are in the list
\* in ascending start_time order, and are disjoint: the end_time of each
\* is not later than the start_time of the next.
C26_TripsInsideWindowInOrder ==
    Call.pc \in {"loop", "committed"}
        => /\ \A k \in 1..Len(Call.trips) :
                  /\ Call.from_date <= Call.trips[k].start_time
                  /\ Call.trips[k].start_time <= Call.trips[k].end_time
                  /\ Call.trips[k].end_time <= Call.to_date
           /\ \A k \in 1..(Len(Call.trips) - 1) :
                  /\ Call.trips[k].start_time <= Call.trips[k + 1].start_time
                  /\ Call.trips[k].end_time <= Call.trips[k + 1].start_time

\* A call whose window leaves out a position of the device has committed
\* two trips.
C26_Witness ==
    /\ Call.pc = "committed" /\ Len(Call.trips) >= 2
    /\ \E p \in positions :
           p.device_id = Call.device_id /\ p.fix_time < Call.from_date

\* Consecutive accumulated positions of the trip are at most
\* TRIP_MAX_GAP_SEC apart.
NoLongGap(trip) ==
    \A k \in 2..Len(trip.positions) :
        trip.positions[k].fix_time - trip.positions[k - 1].fix_time
            <= settings.TRIP_MAX_GAP_SEC

\* C27: within every trip a call builds and persists, and within the trip
\* it has open, any two consecutive accumulated positions are at most
\* TRIP_MAX_GAP_SEC apart.
C27_NoTripSpansLongGap ==
    Call.pc \in {"loop", "committed"}
        => \A trip \in Candidates(Call) : NoLongGap(trip)

\* A call over positions with a gap above TRIP_MAX_GAP_SEC has committed a
\* trip of two positions or more.
C27_Witness ==
    /\ Call.pc = "committed"
    /\ \E k \in 1..Len(Call.trips) : Len(Call.trips[k].positions) >= 2
    /\ \E j \in 2..Len(Call.positions) :
           GapSec(Call.positions, j) > settings.TRIP_MAX_GAP_SEC

\* The largest (speed or 0) among the accumulated positions of the trip.
TopSpeed(trip) ==
    CHOOSE v \in {EffectiveSpeed(trip.positions[k]) : k \in 1..Len(trip.positions)} :
        \A k \in 1..Len(trip.positions) : v >= EffectiveSpeed(trip.positions[k])

\* C28: the max_speed of every trip a call builds, and of the row it
\* persists for it, is the maximum of (speed or 0) over the positions
\* accumulated in the trip, and so at least TRIP_MIN_SPEED_KMH.
C28_MaxSpeedIsTopSpeed ==
    Call.pc \in {"loop", "committed"}
        => /\ \A trip \in Candidates(Call) :
                  /\ trip.max_speed = TopSpeed(trip)
                  /\ trip.max_speed >= settings.TRIP_MIN_SPEED_KMH
           /\ \A k \in 1..Len(Call.trips) :
                  TripRow(Call.trips[k]).max_speed = TopSpeed(Call.trips[k])

\* A call has committed a trip whose fastest position is not its first.
C28_Witness ==
    /\ Call.pc = "committed"
    /\ \E k \in 1..Len(Call.trips) :
           /\ TripRow(Call.trips[k]) \in Rows
           /\ Call.trips[k].max_speed > EffectiveSpeed(Call.trips[k].positions[1])

\* The statistics and start fields of a trip of the list, and of its row,
\* are those of its accumulated positions.
StatsOfPositions(trip) ==
    /\ trip.position_count = Len(trip.positions)
    /\ trip.duration = trip.end_time - trip.start_time
    /\ trip.start_position_id = trip.positions[1].id
    /\ trip.start_time = trip.positions[1].fix_time
    /\ trip.start_lat = trip.positions[1].latitude
    /\ trip.start_lon = trip.positions[1].longitude
    /\ TripRow(trip).position_count = Len(trip.positions)
    /\ TripRow(trip).duration = trip.end_time - trip.start_time

\* C29: for every trip a call persists, position_count is the length of
\* its accumulated list, duration is end_time - start_time, the start
\* fields are those of the first accumulated position, and position_count
\* is at least 2.
C29_CountDurationStart ==
    Call.pc \in {"loop", "committed"}
        => \A k \in 1..Len(Call.trips) :
               StatsOfPositions(Call.trips[k]) /\ Call.trips[k].position_count >= 2

\* The same without the floor of two positions.
C29_StatsOnly ==
    Call.pc \in {"loop", "committed"}
        => \A k \in 1..Len(Call.trips) : StatsOfPositions(Call.trips[k])

\* The same with the floor, for a positive TRIP_MIN_DURATION_SEC.
C29_TwoPositionsAbovePositiveFloor ==
    (Call.pc \in {"loop", "committed"} /\ settings.TRIP_MIN_DURATION_SEC > 0)
        => \A k \in 1..Len(Call.trips) : Call.trips[k].position_count >= 2

\* The rows of the bag that belong to the device.
OfDevice(bag, d) ==
    [r \in {q \in BagToSet(bag) : q.device_id = d} |-> CopiesIn(r, bag)]

\* What a step of session s, serving device d, reads and writes: its
\* delete and its select take rows and positions of d only, its commit
\* replaces the rows of d inside its window by its trips, and the rows of
\* every other device are after the step what they were before it.
OwnDeviceOnly(s, d) ==
    /\ \A o \in Devices \ {d} : OfDevice(trips', o) = OfDevice(trips, o)
    /\ sess[s].pc = "idle"
           => /\ \A k \in 1..Len(sess'[s].positions) :
                     sess'[s].positions[k].device_id = d
              /\ \A r \in BagToSet(sess'[s].deleted) : r.device_id = d
              /\ {p \in positions : /\ p.device_id = d
                                     /\ p.fix_time >= sess'[s].from_date
                                     /\ p.fix_time <= sess'[s].to_date}
                     = {sess'[s].positions[k] : k \in 1..Len(sess'[s].positions)}
    /\ (sess[s].pc = "loop" /\ sess'[s].pc = "committed")
           => /\ \A k \in 1..Len(sess'[s].trips) : sess'[s].trips[k].device_id = d
              /\ OfDevice(trips', d)
                     = (OfDevice(trips, d)
                            (-) [r \in {q \in BagToSet(OfDevice(trips, d)) :
                                            InsideCall(q, sess[s])}
                                     |-> CopiesIn(r, trips)])
                       (+) AddedRows(sess'[s].trips, 1)

\* C30: detect_trips calls for two different devices are independent.
\* Whatever the interleaving of their steps, a step of the call for one
\* device reads the positions and trips of that device only and leaves
\* the persisted trips of the other device as they are, so each device
\* ends with the trips its call alone gives.
C30_DevicesIndependent ==
    [][\A s \in Sessions :
           sess'[s] # sess[s]
               => OwnDeviceOnly(s, IF sess[s].pc = "idle" THEN sess'[s].device_id
                                   ELSE sess[s].device_id)]_vars

\* The call for device 2 is in its loop, holding a delete of a persisted
\* trip, while the call for device 1 has committed a trip.
C30_Witness ==
    /\ sess[2].pc = "loop" /\ sess[2].deleted # EmptyBag
    /\ sess[1].pc = "committed" /\ sess[1].trips # <<>>

\* The call of session 1 has its list from get_trips.
ReadDone == Call.pc = "read"

\* How often the row is in the list of the call.
TimesListed(r) ==
    Cardinality({k \in 1..Len(Call.listed) : Call.listed[k] = r})

\* C31: get_trips(device_id, from, to, limit) returns only trips of the
\* device that lie inside the window, each no more often than it is
\* persisted, in descending start_time order, and at most limit of them
\* (all of them when they are fewer).  POST /api/reports/trips with a
\* device_id reads after its detect_trips, so its list holds the trips
\* that call has just built for the window, latest first.
C31_GetTripsInsideWindowLatestFirst ==
    ReadDone
        => /\ \A k \in 1..Len(Call.listed) :
                  /\ Call.listed[k].device_id = Call.device_id
                  /\ Call.listed[k].start_time >= Call.from_date
                  /\ Call.listed[k].end_time <= Call.to_date
                  /\ TimesListed(Call.listed[k]) <= CopiesIn(Call.listed[k], Seen)
           /\ \A k \in 1..(Len(Call.listed) - 1) :
                  Call.listed[k].start_time >= Call.listed[k + 1].start_time
           /\ Len(Call.listed) <= Call.limit
           /\ Len(Call.listed) < Call.limit
                  => \A r \in BagToSet(Seen) :
                         InsideCall(r, Call) => TimesListed(r) = CopiesIn(r, Seen)
           /\ Call.route = "trips"
                  => /\ Len(Call.listed) = Len(Call.trips)
                     /\ \A k \in 1..Len(Call.trips) :
                            Call.listed[Len(Call.trips) + 1 - k] = TripRow(Call.trips[k])

\* get_trips with limit 1 has returned one trip of a window that holds
\* two, while a trip that reaches beyond the window is persisted.
C31_Witness ==
    /\ ReadDone /\ Call.limit = 1 /\ Len(Call.listed) = 1
    /\ Cardinality({r \in Rows : InsideCall(r, Call)}) >= 2
    /\ \E r \in Rows : MeetsWindow(r, Call) /\ ~InsideCall(r, Call)

\* The report has read the two trips its detect_trips call has built.
C31_ReportRead ==
    ReadDone /\ Call.route = "trips" /\ Len(Call.listed) = 2

\* C39: at the start of every iteration of the loop in which a trip is
\* open, and after the last iteration, the last accumulated position of
\* the open trip is the position before the one the iteration is about,
\* and every accumulated position of the open trip is a moving position;
\* so gap_sec is the gap to the trip's own last position.
C39_OpenTripEndsAtPreviousPosition ==
    (Call.pc = "loop" /\ Open)
        => /\ Call.i >= 2
           /\ Last(OpenTrip.positions) = Call.positions[Call.i - 1]
           /\ \A k \in 1..Len(OpenTrip.positions) : Moving(OpenTrip.positions[k])
           /\ InLoop
                  => GapSec(Call.positions, Call.i)
                         = Pos.fix_time - Last(OpenTrip.positions).fix_time

\* An iteration starts with a trip open that was opened after a position
\* that is not moving, and has two positions.
C39_Witness ==
    /\ InLoop /\ Open /\ Call.i = 4
    /\ Len(OpenTrip.positions) = 2
    /\ ~Moving(Call.positions[1])

\* Websocket w is in the subscriber set of device d.
InSet(w, d) == d \in DOMAIN active_connections /\ w \in active_connections[d]

\* Websocket w is registered, and with device d among its subscriptions.
Registered(w) == w \in DOMAIN client_subscriptions
Subscribed(w, d) == Registered(w) /\ d \in client_subscriptions[w]

\* C32: when connect is only called for websockets that are not registered,
\* then after any sequence of connect, disconnect and broadcast operations a
\* websocket is in active_connections[d] if and only if d is in
\* client_subscriptions[websocket].
C32_RegistriesAgree ==
    \A w \in Sockets, d \in Devices : InSet(w, d) <=> Subscribed(w, d)

\* A broadcast_position has disconnected a websocket whose send failed, after
\* clients connected and disconnected while it ran; one client is subscribed
\* to both devices and one is not registered.
C32_Witness ==
    /\ broadcast.pc = "done" /\ broadcast.kind = "position"
    /\ Len(broadcast.disconnected) = 1
    /\ broadcast.visited # broadcast.targets
    /\ \E w \in Sockets : Subscribed(w, 1) /\ Subscribed(w, 2) /\ InSet(w, 1) /\ InSet(w, 2)
    /\ \E w \in Sockets : ~Registered(w)

\* C33: when connect is called for a registered websocket with a different
\* device list, the websocket is afterwards in active_connections[d] for
\* exactly the devices d of the new list, and a later disconnect removes it
\* from every set.
C33_ReconnectReplacesSubscriptions ==
    \A w \in Sockets :
        /\ Registered(w) => \A d \in Devices : InSet(w, d) <=> d \in client_subscriptions[w]
        /\ ~Registered(w) => \A d \in Devices : ~InSet(w, d)

\* The websockets the step sends to: those the loop of the running broadcast
\* yields in the step.
SentInStep ==
    IF broadcast.pc = "sending" /\ broadcast'.pc = "sending"
    THEN broadcast'.visited \ broadcast.visited
    ELSE {}

\* C34: disconnect(websocket) leaves the websocket out of client_subscriptions
\* and out of the subscriber set of every device, in every step that
\* unregisters one and for every websocket it could be called with, and no
\* step sends to a websocket that is not registered; disconnect of a
\* websocket that is not registered, a second disconnect included, leaves
\* both registries as they are.
C34_DisconnectRemovesEverywhere ==
    [][/\ \A w \in Sockets :
              (Registered(w) /\ ~Registered(w)') => \A d \in Devices : ~InSet(w, d)'
       /\ \A w \in SentInStep : Registered(w) /\ InSet(w, broadcast.device_id)
       /\ \A w \in Sockets :
              ~Registered(w) =>
                  disconnect(active_connections, client_subscriptions, w)
                      = [active_connections |-> active_connections,
                         client_subscriptions |-> client_subscriptions]
       /\ \A w \in Sockets :
              LET once == disconnect(active_connections, client_subscriptions, w)
              IN  /\ w \notin DOMAIN once.client_subscriptions
                  /\ \A d \in DOMAIN once.active_connections :
                         w \notin once.active_connections[d]
                  /\ disconnect(once.active_connections, once.client_subscriptions, w) = once
      ]_vars

\* A broadcast_trip_end has disconnected a websocket whose send failed and
\* has delivered to another; a third client disconnected itself earlier.
C34_Witness ==
    /\ broadcast.kind = "trip_end" /\ broadcast.pc = "raised"
    /\ \E w \in broadcast.visited \ broadcast.delivered :
           ~Registered(w) /\ \A d \in Devices : ~InSet(w, d)
    /\ broadcast.delivered # {}
    /\ \E w \in Sockets \ broadcast.targets : ~Registered(w)

\* The websockets subscribed to device d.
SubscribedTo(d) == {w \in Sockets : Subscribed(w, d)}

\* The step in which the running broadcast returns after its loop.
BroadcastReturns == broadcast.pc = "sending" /\ broadcast'.pc = "done"

TripBroadcast == broadcast.kind \in {"trip_start", "trip_end"}

\* C36: a broadcast_trip_start or broadcast_trip_end in which the send to a
\* subscriber fails does not raise, and when it has returned every
\* subscriber of the device was sent the message and those whose send
\* failed are disconnected.
C36_TripBroadcastSurvivesFailure ==
    TripBroadcast =>
        /\ broadcast.pc # "raised"
        /\ broadcast.pc = "done" => broadcast.visited = broadcast.targets

\* What the trip broadcasts do keep: a websocket whose send failed is
\* disconnected at once, and the message is sent to subscribers only.
C36_FailedSubscriberDisconnected ==
    [][TripBroadcast' =>
           /\ \A w \in SentInStep : Subscribed(w, broadcast.device_id)
           /\ \A w \in SentInStep \ broadcast'.delivered :
                  ~Registered(w)' /\ \A d \in Devices : ~InSet(w, d)'
      ]_vars

\* After a failed send the next step of the loop raises: the broadcast never
\* returns normally once a send has failed.
C36_FailureAlwaysRaises ==
    (TripBroadcast /\ broadcast.pc = "done") => broadcast.visited = broadcast.delivered

\* A trip broadcast for a device with two subscribers raised after the first
\* send failed; the other subscriber was not sent the message.
C36_Raised ==
    /\ TripBroadcast /\ broadcast.pc = "raised"
    /\ Cardinality(broadcast.targets) = 2
    /\ Cardinality(broadcast.visited) = 1
    /\ broadcast.delivered = {}

PositionBroadcast == broadcast.kind = "position"

C37_Raised ==
    /\ PositionBroadcast /\ broadcast.pc = "raised"
    /\ broadcast.disconnected = <<>>
    /\ broadcast.delivered # {}
    /\ broadcast.targets \subseteq SubscribedTo(broadcast.device_id)
    /\ broadcast.targets # SubscribedTo(broadcast.device_id)

\* C38: every key of active_connections maps to a non-empty set; a device
\* that no registered websocket subscribes to is no key, and a broadcast
\* begun for such a device has returned without sending.
C38_NoEmptySubscriberSet ==
    /\ \A d \in DOMAIN active_connections : active_connections[d] # {}
    /\ \A d \in Devices : SubscribedTo(d) = {} => d \notin DOMAIN active_connections
    /\ (broadcast.pc # "idle" /\ broadcast.targets = {})
           => broadcast.pc = "done" /\ broadcast.visited = {}

\* The only subscriber of a device has been disconnected, by the
\* broadcast_position whose send to it failed, and the device is no key any
\* more while the other device still is.
C38_Witness ==
    /\ PositionBroadcast /\ broadcast.pc = "done"
    /\ Len(broadcast.disconnected) = 1
    /\ broadcast.targets = {broadcast.disconnected[1]}
    /\ broadcast.device_id \notin DOMAIN active_connections
    /\ DOMAIN active_connections # {}

====
